---- MODULE Spec2Model ----
(***************************************************************************)
(* A model of the MCP development server (src/src/main.py): the four       *)
(* capability handlers handle_list_resources, handle_read_resource,        *)
(* handle_list_tools and handle_call_tool, run one at a time against a     *)
(* filesystem, a PostgreSQL database and a Redis cache.                    *)
(*                                                                         *)
(* Strings whose characters matter (file contents, cache keys and values)  *)
(* are sequences of one-character tokens; "CR" and "LF" stand for '\r' and *)
(* '\n'.  A path string is [abs, comps]: whether it starts with '/', and   *)
(* its components.  A URI is [prefix, body]: the text up to and including  *)
(* the scheme separator (and "table/" for the database scheme), and the    *)
(* rest.                                                                   *)
(***************************************************************************)
EXTENDS Integers, Sequences, FiniteSets, TLC

VARIABLES fs, db, cache, now, everSet, called, result, conns, opened

vars == <<fs, db, cache, now, everSet, called, result, conns, opened>>

(***************************************************************************)
(* Bounds of the model.                                                    *)
(***************************************************************************)
MaxContentLen == 2
MaxPathLen == 2
MaxRows == 1
MaxNow == 2
MaxTTL == 2
MaxConns == 2

(***************************************************************************)
(* Generic helpers.                                                        *)
(***************************************************************************)
SeqsUpTo(S, n) == UNION {[1..k -> S] : k \in 0..n}

Front(s) == SubSeq(s, 1, Len(s) - 1)

Last(s) == s[Len(s)]

IsPrefix(p, s) == Len(p) <= Len(s) /\ SubSeq(s, 1, Len(p)) = p

Contains(text, v) ==
    \E i \in 0..(Len(text) - Len(v)) : SubSeq(text, i + 1, i + Len(v)) = v

Range(s) == {s[i] : i \in DOMAIN s}

Perms(S) == {p \in [1..Cardinality(S) -> S] : Range(p) = S}

(***************************************************************************)
(* pathlib and the operating system's path resolution.                     *)
(***************************************************************************)
DATA_DIR == [abs |-> TRUE, comps |-> <<"app", "data">>]

\* PurePath parsing: "." components are dropped, ".." components are kept.
RECURSIVE DropDots(_)
DropDots(comps) ==
    IF comps = <<>> THEN <<>>
    ELSE IF Head(comps) = "." THEN DropDots(Tail(comps))
    ELSE <<Head(comps)>> \o DropDots(Tail(comps))

\* Path(s)
PathOf(s) == [abs |-> s.abs, comps |-> DropDots(s.comps)]

\* base / s : an absolute right operand replaces the base.
PathJoin(base, s) ==
    IF s.abs THEN PathOf(s)
    ELSE [abs |-> base.abs, comps |-> base.comps \o DropDots(s.comps)]

\* path.parent : lexical, the root is its own parent.
PathParent(p) == [abs |-> p.abs, comps |-> IF p.comps = <<>> THEN <<>> ELSE Front(p.comps)]

\* path.name
PathName(p) == IF p.comps = <<>> THEN "" ELSE Last(p.comps)

\* path.relative_to(base), for a path under base
RelativeTo(p, base) ==
    [abs |-> FALSE, comps |-> SubSeq(p.comps, Len(base.comps) + 1, Len(p.comps))]

DirNode == [kind |-> "dir", data |-> <<>>]

FileNode(data) == [kind |-> "file", data |-> data]

NodeParent(n) == IF n = <<>> THEN <<>> ELSE Front(n)

\* The kernel's walk of a path from the directory `cur`: every component but
\* the last must be a directory; ".." moves to the parent.
RECURSIVE Walk(_, _, _)
Walk(f, cur, comps) ==
    IF comps = <<>> THEN [st |-> "ok", node |-> cur]
    ELSE IF cur \notin DOMAIN f THEN [st |-> "ENOENT", node |-> cur]
    ELSE IF f[cur].kind # "dir" THEN [st |-> "ENOTDIR", node |-> cur]
    ELSE IF Head(comps) = ".." THEN Walk(f, NodeParent(cur), Tail(comps))
    ELSE Walk(f, cur \o <<Head(comps)>>, Tail(comps))

\* os.stat(path)
Stat(f, p) ==
    LET w == Walk(f, <<>>, p.comps)
    IN  IF w.st # "ok" THEN w
        ELSE IF w.node \notin DOMAIN f THEN [st |-> "ENOENT", node |-> w.node]
        ELSE w

Exists(f, p) == Stat(f, p).st = "ok"

IsDir(f, p) == Stat(f, p).st = "ok" /\ f[Stat(f, p).node].kind = "dir"

IsFile(f, p) == Stat(f, p).st = "ok" /\ f[Stat(f, p).node].kind = "file"

\* Path.mkdir(parents=True, exist_ok=True): every missing directory along the
\* path is created; a component that is a file makes it raise.
RECURSIVE MkdirP(_, _, _)
MkdirP(f, cur, comps) ==
    IF comps = <<>> THEN [st |-> "ok", fs |-> f]
    ELSE IF Head(comps) = ".." THEN MkdirP(f, NodeParent(cur), Tail(comps))
    ELSE LET nxt == cur \o <<Head(comps)>>
         IN  IF nxt \notin DOMAIN f
             THEN MkdirP([n \in DOMAIN f \cup {nxt} |-> IF n = nxt THEN DirNode ELSE f[n]],
                         nxt, Tail(comps))
             ELSE IF f[nxt].kind = "dir" THEN MkdirP(f, nxt, Tail(comps))
             ELSE [st |-> IF Tail(comps) = <<>> THEN "FileExistsError" ELSE "NotADirectoryError",
                   fs |-> f]

(***************************************************************************)
(* Text-mode file I/O (open(..., 'w') and open(..., 'r'), newline=None).   *)
(***************************************************************************)
\* os.linesep of the POSIX host the server runs on
LineSep == <<"LF">>

\* Writing in text mode: every '\n' becomes os.linesep.
RECURSIVE WriteTranslate(_)
WriteTranslate(s) ==
    IF s = <<>> THEN <<>>
    ELSE (IF Head(s) = "LF" THEN LineSep ELSE <<Head(s)>>) \o WriteTranslate(Tail(s))

\* Reading in text mode (universal newlines): "\r\n" and "\r" become "\n".
RECURSIVE ReadTranslate(_)
ReadTranslate(s) ==
    IF s = <<>> THEN <<>>
    ELSE IF Head(s) = "CR"
         THEN <<"LF">> \o ReadTranslate(IF Len(s) >= 2 /\ s[2] = "LF"
                                        THEN Tail(Tail(s)) ELSE Tail(s))
         ELSE <<Head(s)>> \o ReadTranslate(Tail(s))

\* open(path, 'w') followed by write(content): [st, fs].
OpenWrite(f, p, content) ==
    LET w == Walk(f, <<>>, p.comps)
    IN  IF w.st = "ENOENT" THEN [st |-> "FileNotFoundError", fs |-> f]
        ELSE IF w.st = "ENOTDIR" THEN [st |-> "NotADirectoryError", fs |-> f]
        ELSE IF w.node \in DOMAIN f /\ f[w.node].kind = "dir"
             THEN [st |-> "IsADirectoryError", fs |-> f]
        ELSE IF NodeParent(w.node) \notin DOMAIN f
             THEN [st |-> "FileNotFoundError", fs |-> f]
        ELSE IF f[NodeParent(w.node)].kind # "dir"
             THEN [st |-> "NotADirectoryError", fs |-> f]
        ELSE [st |-> "ok",
              fs |-> [n \in DOMAIN f \cup {w.node} |->
                        IF n = w.node THEN FileNode(WriteTranslate(content)) ELSE f[n]]]

\* open(path, 'r') followed by read(): [st, text].
OpenRead(f, p) ==
    LET s == Stat(f, p)
    IN  IF s.st = "ENOENT" THEN [st |-> "FileNotFoundError", text |-> <<>>]
        ELSE IF s.st = "ENOTDIR" THEN [st |-> "NotADirectoryError", text |-> <<>>]
        ELSE IF f[s.node].kind = "dir" THEN [st |-> "IsADirectoryError", text |-> <<>>]
        ELSE [st |-> "ok", text |-> ReadTranslate(f[s.node].data)]

(***************************************************************************)
(* PostgreSQL as psycopg2 shows it.  The committed database `db` maps each *)
(* table of schema public to its rows (one integer column x).  A statement *)
(* is [kind, name, quoted, value, placeholder, returning].                 *)
(***************************************************************************)
\* str.lower(), and PostgreSQL's folding of an unquoted identifier
Lower(s) ==
    CASE s = "T" -> "t"
      [] s = "BASE TABLE" -> "base table"
      [] OTHER -> s

\* The table an identifier in a statement names.
Ident(name, quoted) == IF quoted THEN name ELSE Lower(name)

SetTable(d, t, rows) == [n \in DOMAIN d \cup {t} |-> IF n = t THEN rows ELSE d[n]]

SqlError(d, e) == [st |-> e, db |-> d, description |-> FALSE, rows |-> <<>>, rowcount |-> -1]

\* cur.execute(query, parameters) inside the connection's transaction, whose
\* working copy starts as `d`: [st, db, description, rows, rowcount].
Execute(d, q, parameters) ==
    LET t == Ident(q.name, q.quoted)
        v == IF q.placeholder THEN parameters[1] ELSE q.value
    IN  IF q.kind = "garbage" THEN SqlError(d, "SyntaxError")
        ELSE IF q.placeholder /\ Len(parameters) # 1 THEN SqlError(d, "IndexError")
        ELSE IF ~q.placeholder /\ Len(parameters) # 0 THEN SqlError(d, "TypeError")
        ELSE IF q.kind = "create"
             THEN IF t \in DOMAIN d THEN SqlError(d, "DuplicateTable")
                  ELSE [st |-> "ok", db |-> SetTable(d, t, <<>>), description |-> FALSE,
                        rows |-> <<>>, rowcount |-> -1]
        ELSE IF t \notin DOMAIN d THEN SqlError(d, "UndefinedTable")
        ELSE IF q.kind = "select"
             THEN [st |-> "ok", db |-> d, description |-> TRUE, rows |-> d[t],
                   rowcount |-> Len(d[t])]
        ELSE IF q.kind = "insert"
             THEN [st |-> "ok", db |-> SetTable(d, t, Append(d[t], v)),
                   description |-> q.returning,
                   rows |-> IF q.returning THEN <<v>> ELSE <<>>, rowcount |-> 1]
        ELSE IF q.kind = "update"
             THEN [st |-> "ok", db |-> SetTable(d, t, [i \in DOMAIN d[t] |-> v]),
                   description |-> q.returning,
                   rows |-> IF q.returning THEN [i \in DOMAIN d[t] |-> v] ELSE <<>>,
                   rowcount |-> Len(d[t])]
        ELSE \* delete
             [st |-> "ok", db |-> SetTable(d, t, <<>>), description |-> q.returning,
              rows |-> IF q.returning THEN d[t] ELSE <<>>, rowcount |-> Len(d[t])]

\* The table name interpolated into "SELECT * FROM {table_name} LIMIT 100" is
\* read by the server as an unquoted identifier; an empty name is a syntax error.
Limit == 100

SelectFrom(d, table_name) ==
    IF table_name = "" THEN SqlError(d, "SyntaxError")
    ELSE LET r == Execute(d, [kind |-> "select", name |-> table_name, quoted |-> FALSE,
                              value |-> 0, placeholder |-> FALSE, returning |-> FALSE], <<>>)
         IN  [r EXCEPT !.rows = SubSeq(r.rows, 1, IF Len(r.rows) < Limit THEN Len(r.rows) ELSE Limit)]

\* json.dumps([dict(row) for row in rows], indent=2, default=str)
RECURSIVE JsonRows(_)
JsonRows(rows) ==
    IF rows = <<>> THEN <<>>
    ELSE <<"{", "x", ":", ToString(Head(rows)), "}">> \o JsonRows(Tail(rows))

JsonDumps(rows) == <<"[">> \o JsonRows(rows) \o <<"]">>

(***************************************************************************)
(* Redis as redis-py shows it (decode_responses=True).  `cache` maps each  *)
(* live key to [value, expires]; `now` is the cache server's clock.        *)
(***************************************************************************)
\* SETEX key ttl value: [st, cache].  The server refuses a ttl that is not positive.
Setex(c, t, key, ttl, value) ==
    IF ttl <= 0 THEN [st |-> "ResponseError", cache |-> c]
    ELSE [st |-> "ok",
          cache |-> [k \in DOMAIN c \cup {key} |->
                       IF k = key THEN [value |-> value, expires |-> t + ttl] ELSE c[k]]]

\* GET key: [found, value]
Get(c, t, key) ==
    IF key \in DOMAIN c /\ c[key].expires > t
    THEN [found |-> TRUE, value |-> c[key].value]
    ELSE [found |-> FALSE, value |-> <<>>]

\* The keys the server has expired by time t are gone.
Expire(c, t) == [k \in {x \in DOMAIN c : c[x].expires > t} |-> c[k]]

(***************************************************************************)
(* What a capability call leaves behind: `result` records the last call    *)
(* (the branch of handle_call_tool that ran, if one did), its inputs,      *)
(* whether it returned or raised, what it returned, the backends it called *)
(* and the warning it logged; `called` is the tool name call_tool was      *)
(* given; `everSet` is the set of keys cache_set has stored so far;        *)
(* `conns` is the number of database connections open and `opened` the      *)
(* number the last call opened.                                            *)
(***************************************************************************)
NoUri == [prefix |-> "", body |-> ""]

Returned(op, handler, arguments, uri, value, backends) ==
    [op |-> op, handler |-> handler, arguments |-> arguments, uri |-> uri,
     outcome |-> "return", error |-> "", value |-> value, backends |-> backends,
     warning |-> ""]

Raised(op, handler, arguments, uri, error, backends) ==
    [op |-> op, handler |-> handler, arguments |-> arguments, uri |-> uri,
     outcome |-> "raise", error |-> error, value |-> <<>>, backends |-> backends,
     warning |-> ""]

\* psycopg2.connect(DATABASE_URL) returning a connection
Connect(c) == c + 1

\* conn.close()
Close(c) == c - 1

\* A call, or a path through one, that never reaches psycopg2.connect, or on
\* which psycopg2.connect raises
NoConnection ==
    /\ conns' = conns
    /\ opened' = 0

\* [types.TextContent(type="text", text=...)]
TextResult(text) == <<[type |-> "text", text |-> text]>>

\* arguments[k] raises KeyError when k is missing
Has(arguments, k) == k \in DOMAIN arguments

\* arguments.get(k, default)
GetArg(arguments, k, default) == IF k \in DOMAIN arguments THEN arguments[k] ELSE default

\* str(path) of a path string, as tokens
RECURSIVE JoinComps(_)
JoinComps(comps) ==
    IF comps = <<>> THEN <<>>
    ELSE IF Len(comps) = 1 THEN <<Head(comps)>>
    ELSE <<Head(comps), "/">> \o JoinComps(Tail(comps))

PathStr(s) == (IF s.abs THEN <<"/">> ELSE <<>>) \o JoinComps(s.comps)

(***************************************************************************)
(* handle_call_tool, one definition per branch.                            *)
(***************************************************************************)
\* name == "write_file"
write_file(arguments) ==
    /\ UNCHANGED <<db, cache, now, everSet>>
    /\ NoConnection
    /\ IF ~Has(arguments, "path") \/ ~Has(arguments, "content")
       THEN /\ fs' = fs
            /\ result' = Raised("call_tool", "write_file", arguments, NoUri, "KeyError", {})
       ELSE LET path == arguments.path
                content == arguments.content
                file_path == PathJoin(DATA_DIR, path)
                m == MkdirP(fs, <<>>, PathParent(file_path).comps)
                w == OpenWrite(m.fs, file_path, content)
            IN  IF m.st # "ok"
                THEN /\ fs' = m.fs
                     /\ result' = Raised("call_tool", "write_file", arguments, NoUri, m.st, {"fs"})
                ELSE IF w.st # "ok"
                THEN /\ fs' = m.fs
                     /\ result' = Raised("call_tool", "write_file", arguments, NoUri, w.st, {"fs"})
                ELSE /\ fs' = w.fs
                     /\ result' = Returned("call_tool", "write_file", arguments, NoUri,
                            TextResult(<<"Successfully wrote ", ToString(Len(content)),
                                         " characters to ">> \o PathStr(path)),
                            {"fs"})

\* name == "execute_sql"; psycopg2.connect may fail (connected = FALSE)
execute_sql(arguments, connected) ==
    /\ UNCHANGED <<fs, cache, now, everSet>>
    /\ IF ~Has(arguments, "query")
       THEN /\ db' = db
            /\ NoConnection
            /\ result' = Raised("call_tool", "execute_sql", arguments, NoUri, "KeyError", {})
       ELSE LET query == arguments.query
                parameters == GetArg(arguments, "parameters", <<>>)
                cur == Execute(db, query, parameters)
            IN  IF ~connected
                THEN /\ db' = db
                     /\ NoConnection
                     /\ result' = Raised("call_tool", "execute_sql", arguments, NoUri,
                                         "OperationalError", {"db"})
                ELSE IF cur.st # "ok"
                THEN \* finally: conn.close() discards the transaction
                     /\ db' = db
                     /\ opened' = 1
                     /\ conns' = Close(Connect(conns))
                     /\ result' = Raised("call_tool", "execute_sql", arguments, NoUri,
                                         cur.st, {"db"})
                ELSE IF cur.description
                THEN \* rows are fetched, nothing is committed, conn.close() rolls back
                     /\ db' = db
                     /\ opened' = 1
                     /\ conns' = Close(Connect(conns))
                     /\ result' = Returned("call_tool", "execute_sql", arguments, NoUri,
                                           TextResult(JsonDumps(cur.rows)), {"db"})
                ELSE /\ \A t \in DOMAIN cur.db : Len(cur.db[t]) <= MaxRows
                     /\ db' = cur.db
                     /\ opened' = 1
                     /\ conns' = Close(Connect(conns))
                     /\ result' = Returned("call_tool", "execute_sql", arguments, NoUri,
                            TextResult(<<"Query executed successfully. Rows affected: ",
                                         ToString(cur.rowcount)>>),
                            {"db"})

DefaultTTL == 3600

\* name == "cache_set"
cache_set(arguments) ==
    /\ UNCHANGED <<fs, db, now>>
    /\ NoConnection
    /\ IF ~Has(arguments, "key") \/ ~Has(arguments, "value")
       THEN /\ UNCHANGED <<cache, everSet>>
            /\ result' = Raised("call_tool", "cache_set", arguments, NoUri, "KeyError", {})
       ELSE LET key == arguments.key
                value == arguments.value
                ttl == GetArg(arguments, "ttl", DefaultTTL)
                s == Setex(cache, now, key, ttl, value)
            IN  IF s.st # "ok"
                THEN /\ UNCHANGED <<cache, everSet>>
                     /\ result' = Raised("call_tool", "cache_set", arguments, NoUri,
                                         s.st, {"cache"})
                ELSE /\ cache' = s.cache
                     /\ everSet' = everSet \cup {key}
                     /\ result' = Returned("call_tool", "cache_set", arguments, NoUri,
                            TextResult(<<"Set cache key '">> \o key \o <<"' with TTL ",
                                         ToString(ttl), " seconds">>),
                            {"cache"})

\* (mutant) the key is echoed where the value belongs
CacheGetTextEchoKey(key, g) ==
    IF ~g.found
    THEN <<"Cache key '">> \o key \o <<"' not found">>
    ELSE <<"Cache value for '">> \o key \o <<"': ">> \o key

\* The text cache_get returns for what GET answered
CacheGetText(key, g) ==
    IF ~g.found
    THEN <<"Cache key '">> \o key \o <<"' not found">>
    ELSE <<"Cache value for '">> \o key \o <<"': ">> \o g.value

\* name == "cache_get"
cache_get(arguments) ==
    /\ UNCHANGED <<fs, db, cache, now, everSet>>
    /\ NoConnection
    /\ IF ~Has(arguments, "key")
       THEN result' = Raised("call_tool", "cache_get", arguments, NoUri, "KeyError", {})
       ELSE LET key == arguments.key
                value == Get(cache, now, key)
            IN  result' = Returned("call_tool", "cache_get", arguments, NoUri,
                                   TextResult(CacheGetText(key, value)), {"cache"})

\* (mutant) every node below d, as rglob would give
ChildrenDeep(f, d) == {n \in DOMAIN f : Len(n) > Len(d) /\ SubSeq(n, 1, Len(d)) = d}

\* The immediate children of directory node d: dir_path.iterdir()
Children(f, d) == {n \in DOMAIN f : Len(n) = Len(d) + 1 /\ Front(n) = d}

\* f"{item_type:9} {size:>10} {item.name}" for the child node n
ItemLine(f, n) ==
    LET item_type == IF f[n].kind = "dir" THEN "directory" ELSE "file"
        size == IF f[n].kind = "file" THEN ToString(Len(f[n].data)) ELSE "-"
    IN  <<item_type, size, Last(n)>>

\* name == "list_directory"; the text is the sequence of its lines
list_directory(arguments) ==
    /\ UNCHANGED <<fs, db, cache, now, everSet>>
    /\ NoConnection
    /\ LET path == GetArg(arguments, "path", [abs |-> FALSE, comps |-> <<".">>])
           dir_path == PathJoin(DATA_DIR, path)
           s == Stat(fs, dir_path)
       IN  IF ~Exists(fs, dir_path)
           THEN result' = Returned("call_tool", "list_directory", arguments, NoUri,
                                   TextResult(<<"Directory not found: ">> \o PathStr(path)),
                                   {"fs"})
           ELSE IF fs[s.node].kind # "dir"
           THEN \* dir_path.iterdir() on a file
                result' = Raised("call_tool", "list_directory", arguments, NoUri,
                                 "NotADirectoryError", {"fs"})
           ELSE \E order \in Perms(Children(fs, s.node)) :
                  result' = Returned("call_tool", "list_directory", arguments, NoUri,
                      TextResult(<<<<"Type      Size       Name">>,
                                   <<"------------------------------">>>>
                                 \o [i \in DOMAIN order |-> ItemLine(fs, order[i])]),
                      {"fs"})

\* The lines of a text, split at '\n'
RECURSIVE SplitLines(_, _)
SplitLines(s, cur) ==
    IF s = <<>> THEN <<cur>>
    ELSE IF Head(s) = "LF" THEN <<cur>> \o SplitLines(Tail(s), <<>>)
    ELSE SplitLines(Tail(s), Append(cur, Head(s)))

RECURSIVE Flatten(_)
Flatten(ss) == IF ss = <<>> THEN <<>> ELSE Head(ss) \o Flatten(Tail(ss))

\* pd.read_csv(full_path): blank lines are skipped, the first line left names the
\* columns, the others are the rows: [st, columns, rows].
ReadCsv(f, p) ==
    LET r == OpenRead(f, p)
        lines == SelectSeq(SplitLines(r.text, <<>>), LAMBDA l : l # <<>>)
    IN  IF r.st # "ok" THEN [st |-> r.st, columns |-> <<>>, rows |-> <<>>]
        ELSE IF lines = <<>> THEN [st |-> "EmptyDataError", columns |-> <<>>, rows |-> <<>>]
        ELSE [st |-> "ok", columns |-> <<Head(lines)>>, rows |-> Tail(lines)]

HeadRows == 10

\* The branch of analyze_data that binds `result`, if one does
Analysis(file_path, analysis_type, df) ==
    LET shape == <<ToString(Len(df.rows)), ToString(Len(df.columns))>>
        top == SubSeq(df.rows, 1, IF Len(df.rows) < HeadRows THEN Len(df.rows) ELSE HeadRows)
    IN  IF analysis_type = "summary"
        THEN [bound |-> TRUE,
              text |-> <<"Dataset Summary for ">> \o PathStr(file_path) \o <<":", "LF", "Shape: ">>
                       \o shape \o <<"LF", "Columns: ">> \o Flatten(df.columns)
                       \o <<"LF", "Data types:", "LF", "object">>]
        ELSE IF analysis_type = "head"
        THEN [bound |-> TRUE,
              text |-> <<"First 10 rows of ">> \o PathStr(file_path) \o <<":", "LF">>
                       \o Flatten(df.columns) \o Flatten(top)]
        ELSE IF analysis_type = "info"
        THEN [bound |-> TRUE,
              text |-> <<"Dataset info for ">> \o PathStr(file_path) \o <<":", "LF">>
                       \o shape \o Flatten(df.columns)]
        ELSE IF analysis_type = "describe"
        THEN [bound |-> TRUE,
              text |-> <<"Statistical summary for ">> \o PathStr(file_path) \o <<":", "LF",
                         "count", ToString(Len(df.rows))>>]
        ELSE [bound |-> FALSE, text |-> <<>>]

\* name == "analyze_data"
analyze_data(arguments) ==
    /\ UNCHANGED <<fs, db, cache, now, everSet>>
    /\ NoConnection
    /\ IF ~Has(arguments, "file_path")
       THEN result' = Raised("call_tool", "analyze_data", arguments, NoUri, "KeyError", {})
       ELSE LET file_path == arguments.file_path
                analysis_type == GetArg(arguments, "analysis_type", "summary")
                full_path == PathJoin(DATA_DIR, file_path)
                df == ReadCsv(fs, full_path)
                res == Analysis(file_path, analysis_type, df)
            IN  IF ~Exists(fs, full_path)
                THEN result' = Returned("call_tool", "analyze_data", arguments, NoUri,
                                        TextResult(<<"File not found: ">> \o PathStr(file_path)),
                                        {"fs"})
                ELSE IF df.st # "ok"
                THEN \* except Exception as e
                     result' = Returned("call_tool", "analyze_data", arguments, NoUri,
                                        TextResult(<<"Error analyzing data: ", df.st>>),
                                        {"fs", "pandas"})
                ELSE IF ~res.bound
                THEN \* `result` is read unbound inside the try block
                     result' = Returned("call_tool", "analyze_data", arguments, NoUri,
                                        TextResult(<<"Error analyzing data: ", "UnboundLocalError">>),
                                        {"fs", "pandas"})
                ELSE result' = Returned("call_tool", "analyze_data", arguments, NoUri,
                                        TextResult(res.text), {"fs", "pandas"})

\* (mutant) the last branch tests a misspelt name
handle_call_tool_misspelt(name, arguments) ==
    /\ called' = name
    /\ IF name = "write_file" THEN write_file(arguments)
       ELSE IF name = "execute_sql" THEN \E connected \in BOOLEAN : execute_sql(arguments, connected)
       ELSE IF name = "cache_set" THEN cache_set(arguments)
       ELSE IF name = "cache_get" THEN cache_get(arguments)
       ELSE IF name = "list_directory" THEN list_directory(arguments)
       ELSE IF name = "analyse_data" THEN analyze_data(arguments)
       ELSE /\ UNCHANGED <<fs, db, cache, now, everSet>>
            /\ NoConnection
            /\ result' = Raised("call_tool", "", arguments, NoUri, "ValueError: Unknown tool", {})

\* The if / elif chain of handle_call_tool
handle_call_tool(name, arguments) ==
    /\ called' = name
    /\ IF name = "write_file" THEN write_file(arguments)
       ELSE IF name = "execute_sql" THEN \E connected \in BOOLEAN : execute_sql(arguments, connected)
       ELSE IF name = "cache_set" THEN cache_set(arguments)
       ELSE IF name = "cache_get" THEN cache_get(arguments)
       ELSE IF name = "list_directory" THEN list_directory(arguments)
       ELSE IF name = "analyze_data" THEN analyze_data(arguments)
       ELSE /\ UNCHANGED <<fs, db, cache, now, everSet>>
            /\ NoConnection
            /\ result' = Raised("call_tool", "", arguments, NoUri, "ValueError: Unknown tool", {})

(***************************************************************************)
(* handle_read_resource                                                    *)
(***************************************************************************)
\* (mutant) a missing file is reported softly, as the file tools report it
ReadResourceSoft(f, d, uri, connected) ==
    IF uri.prefix = "file://"
    THEN LET file_path == PathOf(uri.body)
             r == OpenRead(f, file_path)
         IN  IF ~Exists(f, file_path)
             THEN [outcome |-> "return", error |-> "", value |-> <<"File not found: ">>,
                   backends |-> {"fs"}]
             ELSE IF r.st # "ok"
             THEN [outcome |-> "raise", error |-> r.st, value |-> <<>>, backends |-> {"fs"}]
             ELSE [outcome |-> "return", error |-> "", value |-> r.text, backends |-> {"fs"}]
    ELSE IF uri.prefix = "db://table/"
    THEN LET cur == SelectFrom(d, uri.body)
         IN  IF ~connected
             THEN [outcome |-> "raise", error |-> "OperationalError",
                   value |-> <<>>, backends |-> {"db"}]
             ELSE IF cur.st # "ok"
             THEN [outcome |-> "raise", error |-> cur.st, value |-> <<>>, backends |-> {"db"}]
             ELSE [outcome |-> "return", error |-> "", value |-> JsonDumps(cur.rows),
                   backends |-> {"db"}]
    ELSE [outcome |-> "raise", error |-> "ValueError: Unsupported URI scheme",
          value |-> <<>>, backends |-> {}]

\* What read_resource(uri) does in filesystem f and database d when
\* psycopg2.connect succeeds (connected) or fails: [outcome, error, value, backends].
ReadResource(f, d, uri, connected) ==
    IF uri.prefix = "file://"
    THEN LET file_path == PathOf(uri.body)
             r == OpenRead(f, file_path)
         IN  IF ~Exists(f, file_path)
             THEN [outcome |-> "raise", error |-> "ValueError: File not found",
                   value |-> <<>>, backends |-> {"fs"}]
             ELSE IF r.st # "ok"
             THEN [outcome |-> "raise", error |-> r.st, value |-> <<>>, backends |-> {"fs"}]
             ELSE [outcome |-> "return", error |-> "", value |-> r.text, backends |-> {"fs"}]
    ELSE IF uri.prefix = "db://table/"
    THEN LET table_name == uri.body
             cur == SelectFrom(d, table_name)
         IN  IF ~connected
             THEN [outcome |-> "raise", error |-> "OperationalError",
                   value |-> <<>>, backends |-> {"db"}]
             ELSE IF cur.st # "ok"
             THEN [outcome |-> "raise", error |-> cur.st, value |-> <<>>, backends |-> {"db"}]
             ELSE [outcome |-> "return", error |-> "", value |-> JsonDumps(cur.rows),
                   backends |-> {"db"}]
    ELSE [outcome |-> "raise", error |-> "ValueError: Unsupported URI scheme",
          value |-> <<>>, backends |-> {}]

handle_read_resource(uri) ==
    /\ UNCHANGED <<fs, db, cache, now, everSet>>
    /\ called' = ""
    /\ \E connected \in BOOLEAN :
         LET r == ReadResource(fs, db, uri, connected)
         IN  /\ IF uri.prefix = "db://table/" /\ connected
                THEN \* try: ... finally: conn.close()
                     /\ opened' = 1
                     /\ conns' = Close(Connect(conns))
                ELSE NoConnection
             /\ result' = [op |-> "read_resource", handler |-> "", arguments |-> <<>>, uri |-> uri,
                           outcome |-> r.outcome, error |-> r.error, value |-> r.value,
                           backends |-> r.backends, warning |-> ""]

(***************************************************************************)
(* handle_list_resources                                                   *)
(***************************************************************************)
\* file_path.suffix
Suffix(name) ==
    CASE name = "a.txt" -> ".txt"
      [] name = "c.csv" -> ".csv"
      [] OTHER -> ""

\* DATA_DIR.rglob("*") filtered by is_file(): the regular files below the root
FilesUnder(f, root) ==
    {n \in DOMAIN f : Len(n) > Len(root) /\ IsPrefix(root, n) /\ f[n].kind = "file"}

\* (mutant) the uri is built from the file's name, not from its path
FileResourceByName(n) ==
    LET file_path == [abs |-> TRUE, comps |-> n]
    IN  [uri |-> [prefix |-> "file://", body |-> [abs |-> TRUE, comps |-> <<PathName(file_path)>>]],
         name |-> PathName(file_path),
         description |-> <<"File: ">> \o PathStr(RelativeTo(file_path, DATA_DIR)),
         mimeType |-> "text/plain"]

FileResource(n) ==
    LET file_path == [abs |-> TRUE, comps |-> n]
    IN  [uri |-> [prefix |-> "file://", body |-> file_path],
         name |-> PathName(file_path),
         description |-> <<"File: ">> \o PathStr(RelativeTo(file_path, DATA_DIR)),
         mimeType |-> IF Suffix(PathName(file_path)) \in {".txt", ".csv", ".json"}
                      THEN "text/plain" ELSE "application/octet-stream"]

TableResource(table_name, table_type) ==
    [uri |-> [prefix |-> "db://table/", body |-> table_name],
     name |-> table_name,
     description |-> <<"Database ", Lower(table_type), ": ", table_name>>,
     mimeType |-> "application/x-sql"]

\* db_fault is "none", or where the database section raises: at psycopg2.connect
\* or at cur.execute.  The files and the tables come in the order the
\* filesystem and the server give them.  conn.close() is the last statement
\* of the try block: when cur.execute raises, the except branch logs and the
\* connection is never closed by the handler; whether the interpreter has
\* finalised the unreferenced connection object when the call ends is up to
\* its garbage collector.
handle_list_resources(db_fault) ==
    /\ UNCHANGED <<fs, db, cache, now, everSet>>
    /\ called' = ""
    /\ IF db_fault = "none"
       THEN /\ opened' = 1
            /\ conns' = Close(Connect(conns))
       ELSE IF db_fault = "connect"
       THEN NoConnection
       ELSE /\ opened' = 1
            /\ \/ conns' = conns
               \/ /\ conns < MaxConns
                  /\ conns' = Connect(conns)
    /\ \E files \in Perms(IF Exists(fs, DATA_DIR) THEN FilesUnder(fs, DATA_DIR.comps) ELSE {}) :
       \E tables \in Perms(DOMAIN db) :
         LET file_resources == [i \in DOMAIN files |-> FileResource(files[i])]
             table_resources == [i \in DOMAIN tables |-> TableResource(tables[i], "BASE TABLE")]
             resources == IF db_fault = "none" THEN file_resources \o table_resources
                          ELSE file_resources
         IN  result' = [op |-> "list_resources", handler |-> "", arguments |-> <<>>, uri |-> NoUri,
                        outcome |-> "return", error |-> "", value |-> resources,
                        backends |-> {"fs", "db"},
                        warning |-> IF db_fault = "none" THEN ""
                                    ELSE "Could not list database tables"]

(***************************************************************************)
(* handle_list_tools                                                       *)
(***************************************************************************)
\* The catalog: each tool's name and the fields its schema requires
ToolCatalog ==
    << [name |-> "write_file", required |-> {"path", "content"}],
       [name |-> "execute_sql", required |-> {"query"}],
       [name |-> "cache_set", required |-> {"key", "value"}],
       [name |-> "cache_get", required |-> {"key"}],
       [name |-> "list_directory", required |-> {}],
       [name |-> "analyze_data", required |-> {"file_path"}] >>

handle_list_tools ==
    /\ UNCHANGED <<fs, db, cache, now, everSet>>
    /\ NoConnection
    /\ called' = ""
    /\ result' = Returned("list_tools", "", <<>>, NoUri, ToolCatalog, {})

\* The cache server's clock advances and it expires what is due.
Tick ==
    /\ now < MaxNow
    /\ now' = now + 1
    /\ cache' = Expire(cache, now + 1)
    /\ called' = ""
    /\ result' = Returned("tick", "", <<>>, NoUri, <<>>, {})
    /\ UNCHANGED <<fs, db, everSet>>
    /\ NoConnection

(***************************************************************************)
(* The state once main() has initialised: the data directory exists and is *)
(* empty, the database has no table in schema public, the cache is empty.  *)
(***************************************************************************)
Init ==
    /\ fs = [n \in {<<>>, <<"app">>, <<"app", "data">>} |-> DirNode]
    /\ db = [t \in {} |-> <<>>]
    /\ cache = [k \in {} |-> <<>>]
    /\ now = 0
    /\ everSet = {}
    /\ called = ""
    /\ result = Returned("init", "", <<>>, NoUri, <<>>, {})
    /\ conns = 0
    /\ opened = 0

(***************************************************************************)
(* The requests the protocol loop hands to the handlers, one at a time.    *)
(***************************************************************************)
Chars == {"x", "CR", "LF"}

Contents == SeqsUpTo(Chars, MaxContentLen)

Names == {"a.txt", "b"}

RelPath(comps) == [abs |-> FALSE, comps |-> comps]

\* Relative paths that stay below the data directory
PlainPaths == {RelPath(c) : c \in SeqsUpTo(Names, MaxPathLen) \ {<<>>}}

\* Relative paths that may climb out of it, and "."
DotPaths == {RelPath(c) : c \in SeqsUpTo({"b", ".."}, MaxPathLen) \cup {<<".">>}}

AnalysisTypes == {"summary", "head", "info", "describe", "median"}

ListDirectoryArgs(paths) == {[path |-> p] : p \in paths} \cup {<<>>}

AnalyzeDataArgs(paths) ==
    {[file_path |-> p, analysis_type |-> t] : p \in paths, t \in AnalysisTypes}
    \cup {[file_path |-> p] : p \in paths}

\* file://<DATA_DIR>/<path>
FileUri(path) ==
    [prefix |-> "file://", body |-> [abs |-> TRUE, comps |-> DATA_DIR.comps \o path.comps]]

WriteFile(paths, contents) ==
    \E p \in paths, c \in contents :
        handle_call_tool("write_file", [path |-> p, content |-> c])

ListDirectory(paths) ==
    \E arguments \in ListDirectoryArgs(paths) : handle_call_tool("list_directory", arguments)

AnalyzeData(paths) ==
    \E arguments \in AnalyzeDataArgs(paths) : handle_call_tool("analyze_data", arguments)

ReadFile(paths) == \E p \in paths : handle_read_resource(FileUri(p))

(***************************************************************************)
(* SpecRoundTrip: files written at the top of the data directory with      *)
(* every content up to MaxContentLen, and read back as resources.          *)
(***************************************************************************)
TopPaths == {RelPath(<<n>>) : n \in Names}

RtWriteFile == WriteFile(TopPaths, Contents)

RtReadFile == ReadFile(TopPaths)

NextRoundTrip == RtWriteFile \/ RtReadFile

SpecRoundTrip == Init /\ [][NextRoundTrip]_vars

\* The last call was call_tool(name, ...) and it returned
ToolReturned(name) ==
    result.op = "call_tool" /\ result.handler = name /\ result.outcome = "return"

\* C1: a successful write_file(P, C) followed by read_resource of
\* file://<root>/P returns exactly C, for every content C and whatever the
\* file held before.
C1_RoundTrip ==
    [][(/\ ToolReturned("write_file")
        /\ result'.op = "read_resource"
        /\ result'.uri = FileUri(result.arguments.path))
       => (result'.outcome = "return" /\ result'.value = result.arguments.content)]_vars

(***************************************************************************)
(* SpecFiles: the three file tools, called with relative paths that may    *)
(* hold "..", on files that are empty or hold two lines.                   *)
(***************************************************************************)
FsContents == {<<>>, <<"x", "LF", "x">>}

FsWriteFile == WriteFile(DotPaths, FsContents)

FsListDirectory == ListDirectory(DotPaths)

FsAnalyzeData == AnalyzeData(DotPaths)

NextFiles == FsWriteFile \/ FsListDirectory \/ FsAnalyzeData

SpecFiles == Init /\ [][NextFiles]_vars

\* The fields the catalog requires of the tool `name`
Required(name) ==
    UNION {ToolCatalog[i].required : i \in {j \in DOMAIN ToolCatalog : ToolCatalog[j].name = name}}

\* C7: list_directory and analyze_data, given their required fields, return
\* exactly one text block in every filesystem state; no failure is raised.
C7_SoftFailure ==
    (/\ result.op = "call_tool"
     /\ called \in {"list_directory", "analyze_data"}
     /\ Required(called) \subseteq DOMAIN result.arguments)
    => (/\ result.outcome = "return"
        /\ Len(result.value) = 1
        /\ result.value[1].type = "text")

\* The nodes the filesystem holds when the server starts
InitialNodes == {<<>>, <<"app">>, <<"app", "data">>}

\* C8: after any sequence of file tool calls, every filesystem entry outside
\* the sandbox root is one that was there at the start, unchanged.
C8_Confined ==
    \A n \in DOMAIN fs :
        \/ IsPrefix(DATA_DIR.comps, n)
        \/ (n \in InitialNodes /\ fs[n] = DirNode)

(***************************************************************************)
(* SpecList: files written below the data directory, up to MaxPathLen      *)
(* levels deep, and directories listed.                                    *)
(***************************************************************************)
ListContents == {<<"x", "LF">>}

LsWriteFile == WriteFile(PlainPaths, ListContents)

LsListDirectory == ListDirectory(PlainPaths \cup {RelPath(<<".">>)})

NextList == LsWriteFile \/ LsListDirectory

SpecList == Init /\ [][NextList]_vars

\* The directory a list_directory call with these arguments names
ListedPath(arguments) ==
    IF "path" \in DOMAIN arguments
    THEN [abs |-> TRUE,
          comps |-> DATA_DIR.comps \o SelectSeq(arguments.path.comps, LAMBDA c : c # ".")]
    ELSE DATA_DIR

\* The last call was list_directory on a path that is a directory
ListedDirectory ==
    /\ result.op = "call_tool"
    /\ called = "list_directory"
    /\ IsDir(fs, ListedPath(result.arguments))

\* C6: list_directory on an existing directory returns one text block whose
\* item lines are exactly the immediate children of that directory, one line
\* each, tagged 'directory' for a directory and 'file' otherwise, a directory's
\* size shown as '-'; with no 'path' the sandbox root is listed.
C6_ListsChildren ==
    ListedDirectory =>
        /\ result.outcome = "return"
        /\ Len(result.value) = 1
        /\ result.value[1].type = "text"
        /\ LET text == result.value[1].text
               d == Stat(fs, ListedPath(result.arguments)).node
               kids == {n \in DOMAIN fs : Len(n) = Len(d) + 1 /\ SubSeq(n, 1, Len(d)) = d}
           IN  /\ Len(text) = 2 + Cardinality(kids)
               /\ \A n \in kids :
                    \E i \in 3..Len(text) :
                        /\ text[i][3] = n[Len(n)]
                        /\ text[i][1] = (IF fs[n].kind = "dir" THEN "directory" ELSE "file")
                        /\ (fs[n].kind = "dir" => text[i][2] = "-")

\* A listing that shows a file and a directory that itself has a child
C6_Witness ==
    /\ ListedDirectory
    /\ result.outcome = "return"
    /\ \E i, j \in 3..Len(result.value[1].text) :
         /\ result.value[1].text[i][1] = "file"
         /\ result.value[1].text[j][1] = "directory"
         /\ Stat(fs, ListedPath(result.arguments)).node
              \o <<result.value[1].text[j][3], "a.txt">> \in DOMAIN fs

(***************************************************************************)
(* SpecCache: cache_set and cache_get on two keys while the cache server's *)
(* clock runs.                                                             *)
(***************************************************************************)
Keys == {<<"k">>, <<"v">>}

Values == {<<"v">>, <<"k", "v">>}

CacheSetArgs ==
    {[key |-> k, value |-> v, ttl |-> t] : k \in Keys, v \in Values, t \in 0..MaxTTL}
    \cup {[key |-> k, value |-> v] : k \in Keys, v \in Values}

CacheSet == \E arguments \in CacheSetArgs : handle_call_tool("cache_set", arguments)

CacheGet == \E k \in Keys : handle_call_tool("cache_get", [key |-> k])

NextCache == CacheSet \/ CacheGet \/ Tick

SpecCache == Init /\ [][NextCache]_vars

\* C4: a successful cache_set(k, v, ttl), with ttl given or defaulted, followed
\* by cache_get(k) returns one text block containing v; cache_get on a key
\* that was never set returns "Cache key '<k>' not found" and does not raise.
C4_CacheRoundTrip ==
    [][(result'.op = "call_tool" /\ called' = "cache_get")
       => /\ (ToolReturned("cache_set") /\ result'.arguments.key = result.arguments.key)
             => /\ result'.outcome = "return"
                /\ Len(result'.value) = 1
                /\ result'.value[1].type = "text"
                /\ Contains(result'.value[1].text, result.arguments.value)
          /\ (result'.arguments.key \notin everSet)
             => /\ result'.outcome = "return"
                /\ result'.value =
                     <<[type |-> "text",
                        text |-> <<"Cache key '">> \o result'.arguments.key \o <<"' not found">>]>>]_vars

\* cache_get found a value that cache_set stored with the default ttl
C4_Witness ==
    /\ ToolReturned("cache_get")
    /\ result.arguments.key \in DOMAIN cache
    /\ cache[result.arguments.key].expires >= DefaultTTL
    /\ Contains(result.value[1].text, cache[result.arguments.key].value)
    /\ everSet # Keys

(***************************************************************************)
(* SpecDb: execute_sql with statements on the tables t and "T", and        *)
(* read_resource on db://table/ URIs.                                      *)
(***************************************************************************)
Stmt(kind, name, quoted, value, placeholder, returning) ==
    [kind |-> kind, name |-> name, quoted |-> quoted, value |-> value,
     placeholder |-> placeholder, returning |-> returning]

\* t, T (folded to t) and "T"
TableRefs == {<<"t", FALSE>>, <<"T", FALSE>>, <<"T", TRUE>>}

SqlValues == {1, 2}

Queries ==
    {Stmt(k, r[1], r[2], 0, FALSE, FALSE) : k \in {"create", "select"}, r \in TableRefs}
    \cup {Stmt(k, r[1], r[2], v, FALSE, ret) :
            k \in {"insert", "update"}, r \in TableRefs, v \in SqlValues, ret \in BOOLEAN}
    \cup {Stmt("delete", r[1], r[2], 0, FALSE, ret) : r \in TableRefs, ret \in BOOLEAN}
    \cup {Stmt("garbage", "", FALSE, 0, FALSE, FALSE)}

\* Statements with one %s placeholder, with and without the parameter it needs
ParamQueries == {Stmt("insert", "t", FALSE, 0, TRUE, ret) : ret \in BOOLEAN}

ExecuteSqlArgs ==
    {[query |-> q] : q \in Queries \cup ParamQueries}
    \cup {[query |-> q, parameters |-> <<v>>] :
            q \in ParamQueries \cup {Stmt("select", "t", FALSE, 0, FALSE, FALSE)},
            v \in SqlValues}

TableUri(table_name) == [prefix |-> "db://table/", body |-> table_name]

ExecuteSql == \E arguments \in ExecuteSqlArgs : handle_call_tool("execute_sql", arguments)

ReadTable == \E n \in {"t", "T", "u", ""} : handle_read_resource(TableUri(n))

NextDb == ExecuteSql \/ ReadTable

SpecDb == Init /\ [][NextDb]_vars

\* The value a statement writes: its literal, or the parameter bound to %s
Written(arguments) ==
    IF arguments.query.placeholder THEN arguments.parameters[1] ELSE arguments.query.value

\* C5: of the statements execute_sql completes, a SELECT returns the JSON array
\* of the table's rows and leaves the database as it was; an INSERT, UPDATE or
\* DELETE returns the row-count message and its effect is committed: it is in
\* the database every later connection sees.
C5_ShapeAndDurability ==
    [][(result'.op = "call_tool" /\ called' = "execute_sql" /\ result'.outcome = "return")
       => LET q == result'.arguments.query
              t == IF q.quoted THEN q.name ELSE Lower(q.name)
              text == result'.value[1].text
          IN  /\ q.kind = "select" => (text = JsonDumps(db[t]) /\ db' = db)
              /\ q.kind \in {"insert", "update", "delete"}
                 => /\ text[1] = "Query executed successfully. Rows affected: "
                    /\ q.kind = "insert" => db'[t] = Append(db[t], Written(result'.arguments))
                    /\ q.kind = "update"
                       => db'[t] = [i \in DOMAIN db[t] |-> Written(result'.arguments)]
                    /\ q.kind = "delete" => db'[t] = <<>>]_vars

(***************************************************************************)
(* SpecResources: files written at two levels, tables created and filled,  *)
(* the catalog enumerated (with the database answering or failing), and    *)
(* each enumerated descriptor read.                                        *)
(***************************************************************************)
ResPaths == {RelPath(<<"a.txt">>), RelPath(<<"b", "a.txt">>)}

ResQueries ==
    {Stmt("create", r[1], r[2], 0, FALSE, FALSE) : r \in TableRefs}
    \cup {Stmt("insert", r[1], r[2], 1, FALSE, FALSE) : r \in TableRefs}

DbFaults == {"none", "connect", "execute"}

ResWriteFile == WriteFile(ResPaths, ListContents)

ResExecuteSql == \E q \in ResQueries : handle_call_tool("execute_sql", [query |-> q])

ListResources == \E db_fault \in DbFaults : handle_list_resources(db_fault)

\* The client reads a descriptor of the enumeration it has just received.
ReadListed ==
    /\ result.op = "list_resources"
    /\ \E i \in DOMAIN result.value : handle_read_resource(result.value[i].uri)

NextResources == ResWriteFile \/ ResExecuteSql \/ ListResources \/ ReadListed

SpecResources == Init /\ [][NextResources]_vars

UriEq(u, v) == u.prefix = v.prefix /\ u.body = v.body

\* C2: read_resource on the uri of any descriptor list_resources has just
\* returned succeeds (unless the database cannot be reached at that moment).
C2_NoDangling ==
    [][(/\ result.op = "list_resources"
        /\ result'.op = "read_resource"
        /\ \E i \in DOMAIN result.value : UriEq(result.value[i].uri, result'.uri))
       => (result'.outcome = "return" \/ result'.error = "OperationalError")]_vars

\* The regular files below the sandbox root
SandboxFiles ==
    {n \in DOMAIN fs : /\ Len(n) > Len(DATA_DIR.comps)
                       /\ SubSeq(n, 1, Len(DATA_DIR.comps)) = DATA_DIR.comps
                       /\ fs[n].kind = "file"}

\* C10: list_resources never fails.  When the database section raises it
\* returns exactly one file:// descriptor per regular file below the sandbox
\* root and no db:// descriptor; when it does not, no db://table/ descriptor
\* comes before a file:// descriptor and no two descriptors share a uri.
C10_PartialResults ==
    result.op = "list_resources" =>
        /\ result.outcome = "return"
        /\ LET v == result.value
           IN  /\ result.warning # ""
                  => /\ Len(v) = Cardinality(SandboxFiles)
                     /\ \A i \in DOMAIN v : v[i].uri.prefix = "file://"
                     /\ \A n \in SandboxFiles :
                          \E i \in DOMAIN v : v[i].uri.body = [abs |-> TRUE, comps |-> n]
               /\ result.warning = ""
                  => /\ \A i, j \in DOMAIN v :
                          (i < j) => ~(v[i].uri.prefix = "db://table/" /\ v[j].uri.prefix = "file://")
                     /\ \A i, j \in DOMAIN v : (i # j) => ~UriEq(v[i].uri, v[j].uri)

\* The database failed while tables and files at both levels exist
C10_Witness ==
    /\ result.op = "list_resources"
    /\ result.warning # ""
    /\ Len(result.value) = 2
    /\ DOMAIN db # {}

(***************************************************************************)
(* Spec: every capability, with call_tool given each name (registered or   *)
(* not) with each of a few argument mappings, and read_resource given URIs *)
(* of every scheme.                                                        *)
(***************************************************************************)
ToolNames == {"write_file", "execute_sql", "cache_set", "cache_get", "list_directory",
              "analyze_data", "nonexistent_tool", "Write_File", ""}

SomeArguments ==
    { <<>>,
      [path |-> RelPath(<<"a.txt">>), content |-> <<"x", "LF">>],
      [path |-> RelPath(<<"a.txt">>)],
      [query |-> Stmt("create", "t", FALSE, 0, FALSE, FALSE)],
      [query |-> Stmt("select", "t", FALSE, 0, FALSE, FALSE)],
      [key |-> <<"k">>, value |-> <<"v">>],
      [key |-> <<"k">>],
      [file_path |-> RelPath(<<"a.txt">>), analysis_type |-> "head"] }

SomeUris ==
    {FileUri(RelPath(<<n>>)) : n \in Names}
    \cup {FileUri(RelPath(<<>>)), FileUri(RelPath(<<"a.txt", "b">>))}
    \cup {TableUri(n) : n \in {"t", "u"}}
    \cup {[prefix |-> p, body |-> "x"] : p \in {"http://", "db://", "FILE://", ""}}

CallTool == \E name \in ToolNames, arguments \in SomeArguments : handle_call_tool(name, arguments)

ReadResourceAny == \E uri \in SomeUris : handle_read_resource(uri)

Next == CallTool \/ ReadResourceAny \/ ListResources \/ handle_list_tools \/ Tick

Spec == Init /\ [][Next]_vars

\* The names list_tools returns
CatalogNames == {ToolCatalog[i].name : i \in DOMAIN ToolCatalog}

\* C3: call_tool with a name that list_tools does not return raises
\* UnknownTool whatever the arguments, returns nothing and leaves every
\* backend as it was; with a name list_tools returns, it runs the branch of
\* that name and of no other, and never raises UnknownTool.
C3_ClosedDispatch ==
    [][(result'.op = "call_tool")
       => /\ called' \notin CatalogNames
             => /\ result'.outcome = "raise"
                /\ result'.error = "ValueError: Unknown tool"
                /\ result'.value = <<>>
                /\ result'.handler = ""
                /\ result'.backends = {}
                /\ UNCHANGED <<fs, db, cache, everSet>>
          /\ called' \in CatalogNames
             => /\ result'.handler = called'
                /\ result'.error # "ValueError: Unknown tool"]_vars

\* An unregistered name was called with arguments a registered tool accepts
C3_Witness ==
    /\ result.op = "call_tool"
    /\ called = "Write_File"
    /\ "content" \in DOMAIN result.arguments
    /\ result.outcome = "raise"
    /\ DOMAIN fs # InitialNodes

\* C9: read_resource serves a file:// uri from the filesystem alone and raises
\* NotFound when the path does not exist; serves a db://table/ uri from the
\* database alone; raises UnsupportedScheme for any other uri without calling
\* a backend; a read_resource that raises returns no text; and no
\* read_resource that raises changes the filesystem or the cache.
C9_SchemeDispatch ==
    [][(result'.op = "read_resource")
       => LET uri == result'.uri
          IN  /\ uri.prefix = "file://"
                 => /\ result'.backends = {"fs"}
                    /\ (\/ Walk(fs, <<>>, uri.body.comps).st # "ok"
                        \/ Walk(fs, <<>>, uri.body.comps).node \notin DOMAIN fs)
                       => (/\ result'.outcome = "raise"
                           /\ result'.error = "ValueError: File not found")
              /\ uri.prefix = "db://table/" => result'.backends = {"db"}
              /\ uri.prefix \notin {"file://", "db://table/"}
                 => /\ result'.outcome = "raise"
                    /\ result'.error = "ValueError: Unsupported URI scheme"
                    /\ result'.backends = {}
              /\ result'.outcome = "raise"
                 => /\ result'.value = <<>>
                    /\ UNCHANGED <<fs, cache>>]_vars

\* A file:// uri whose path does not exist was read while another file exists
C9_Witness ==
    /\ result.op = "read_resource"
    /\ result.uri.prefix = "file://"
    /\ result.error = "ValueError: File not found"
    /\ DOMAIN fs # InitialNodes
    /\ DOMAIN cache # {}


(***************************************************************************)
(* Database connections, under SpecResources: execute_sql, list_resources  *)
(* (with the database answering, refusing the connection, or failing the   *)
(* query) and read_resource on the enumerated descriptors.                 *)
(***************************************************************************)
\* C11: every call opens at most one database connection and has closed it
\* when it ends, whether it returns or fails with a backend error: after any
\* sequence of calls no database connection is open.
C11_ConnectionPerCall ==
    /\ opened <= 1
    /\ conns = 0

====
